---- MODULE Spec2Model ----
(***************************************************************************)
(* Chat session and authorization core of the user-auth-system server:     *)
(* the socket Connection Gate (io.use), the Session Registry               *)
(* (connectedUsers / userSockets), the REST authenticateToken middleware,  *)
(* account deactivation, and the message lifecycle operations of the       *)
(* Message model, reached through socket events and through the REST       *)
(* routes.                                                                 *)
(***************************************************************************)
EXTENDS Integers, Sequences, FiniteSets, TLC

VARIABLES
    users,           \* User collection: id -> [exists, isActive, role]
    sock,            \* per socket: handshake credential, state, socket.user
    connectedUsers,  \* Map userId -> socketId
    userSockets,     \* Map socketId -> userId
    rooms,           \* socket -> set of joined rooms
    out,             \* events and responses emitted by the latest step
    probe,           \* outcomes of the two validators on one credential
    msgs,            \* Message collection: id -> document, or None
    tasks,           \* handlers suspended on a storage round trip
    now,             \* the clock read by new Date()
    pages,           \* results of the List and Search calls since the latest write
    req,             \* the event or request the latest step handled
    up               \* the server process is running

vars == <<users, sock, connectedUsers, userSockets, rooms, out, probe, msgs, tasks, now, pages, req, up>>

None == "none"

(***************************************************************************)
(* Users.  Roles are fixed at creation (no route changes a role); "ghost"  *)
(* is a well-formed identifier to which no user document belongs.          *)
(***************************************************************************)
Users == {"u1", "u2", "u3"}
UserRefs == Users \cup {"ghost"}

RoleOf(u) ==
    CASE u = "u1" -> "user"
      [] u = "u2" -> "moderator"
      [] u = "u3" -> "admin"
      [] OTHER -> None

MaxSockets == 2
Sockets == 1..MaxSockets
NoSocket == 0

(***************************************************************************)
(* Credentials, described by what the validators look at.                  *)
(*   shape   : absent, not three dot-separated segments, or a JWT          *)
(*   sig     : signed with the server secret                               *)
(*   expired : past its exp claim                                          *)
(*   iss     : issuer and audience are 'auth-system'/'auth-system-users'   *)
(*   sub     : the userId claim: missing, not 24 hex digits, or an id      *)
(***************************************************************************)
NoCred == [shape |-> "none", sig |-> FALSE, expired |-> FALSE, iss |-> FALSE, sub |-> "nosub"]
AbsentCred == [shape |-> "absent", sig |-> FALSE, expired |-> FALSE, iss |-> FALSE, sub |-> "nosub"]
MalformedCred == [shape |-> "malformed", sig |-> FALSE, expired |-> FALSE, iss |-> FALSE, sub |-> "nosub"]
Subjects == UserRefs \cup {"nosub", "badsub"}
JwtCreds == [shape : {"jwt"}, sig : BOOLEAN, expired : BOOLEAN, iss : BOOLEAN, sub : Subjects]
Creds == {AbsentCred, MalformedCred} \cup JwtCreds

\* The credentials clients present on the live channel and to /deactivate:
\* a sound token of each user, and every way a token can be unsound
Defects(c) == (IF c.sig THEN 0 ELSE 1) + (IF c.expired THEN 1 ELSE 0) + (IF c.iss THEN 0 ELSE 1)
                + (IF c.sub \in Users THEN 0 ELSE 1)
TokenOf(u) == [shape |-> "jwt", sig |-> TRUE, expired |-> FALSE, iss |-> TRUE, sub |-> u]
SessionCreds ==
    {AbsentCred, MalformedCred}
        \cup {c \in JwtCreds : Defects(c) = 0}
        \cup {c \in JwtCreds : Defects(c) = 1 /\ c.sub \in {"u1", "ghost", "nosub", "badsub"}}

\* User.findById: the document, or NoUser when no user has that id
NoUser == [id |-> None, exists |-> FALSE, isActive |-> FALSE, role |-> None]

FindUser(u) ==
    IF u \in Users /\ users[u].exists
    THEN [id |-> u, exists |-> TRUE, isActive |-> users[u].isActive, role |-> users[u].role]
    ELSE NoUser

\* jwt.verify(token, secret, options): "ok", or the name of the error thrown.
\* The signature is checked first, then expiry, then (when the options ask
\* for it) audience and issuer.
JwtVerify(c, checkIssuer) ==
    IF ~c.sig THEN "JsonWebTokenError"
    ELSE IF c.expired THEN "TokenExpiredError"
    ELSE IF checkIssuer /\ ~c.iss THEN "JsonWebTokenError"
    ELSE "ok"

VerifyTokenIgnoringIssuer(c) ==
    IF c.shape # "jwt" THEN None
    ELSE IF JwtVerify(c, FALSE) # "ok" THEN None
    ELSE IF c.sub \in {"nosub", "badsub"} THEN None
    ELSE c.sub

\* verifyToken: the decoded userId, or None (null)
VerifyToken(c) ==
    IF c.shape # "jwt" THEN None
    ELSE IF JwtVerify(c, TRUE) # "ok" THEN None
    ELSE IF c.sub \in {"nosub", "badsub"} THEN None
    ELSE c.sub

Verdict(outcome, err, user) == [outcome |-> outcome, err |-> err, user |-> user]

\* io.use middleware: next(err) or socket.user = user; next()
GateOutcome(c) ==
    IF c.shape \in {"absent", "none"} THEN Verdict("reject", "Authentication token required", NoUser)
    ELSE IF VerifyToken(c) = None THEN Verdict("reject", "Invalid token", NoUser)
    ELSE IF ~FindUser(VerifyToken(c)).exists \/ ~FindUser(VerifyToken(c)).isActive
         THEN Verdict("reject", "User not found or inactive", NoUser)
    ELSE Verdict("accept", None, FindUser(VerifyToken(c)))

\* authenticateToken: 401 with an error name, or req.user = user; next()
AuthenticateToken(c) ==
    IF c.shape \in {"absent", "none"} THEN Verdict("reject", "Access token required", NoUser)
    ELSE IF c.shape # "jwt" THEN Verdict("reject", "Invalid token format", NoUser)
    ELSE IF JwtVerify(c, FALSE) = "JsonWebTokenError" THEN Verdict("reject", "Invalid token", NoUser)
    ELSE IF JwtVerify(c, FALSE) = "TokenExpiredError" THEN Verdict("reject", "Token expired", NoUser)
    ELSE IF c.sub = "nosub" THEN Verdict("reject", "Invalid token payload", NoUser)
    ELSE IF c.sub = "badsub" THEN Verdict("reject", "Invalid user ID", NoUser)
    ELSE IF ~FindUser(c.sub).exists THEN Verdict("reject", "User not found", NoUser)
    ELSE IF ~FindUser(c.sub).isActive THEN Verdict("reject", "Account deactivated", NoUser)
    ELSE Verdict("accept", None, FindUser(c.sub))

\* no List or Search result on record
NoPages == [limit |-> 0, list |-> {}, search |-> {}]

NoMsgId == 0
HttpRcpt == 0

(***************************************************************************)
(* Messages.  A content string is described by the length of its trimmed   *)
(* text (body), the number of whitespace characters around it (pad) and    *)
(* the text itself; "missing" is a payload without a content field.        *)
(***************************************************************************)
MaxContentLen == 1000

Content(body, pad, text) == [body |-> body, pad |-> pad, text |-> text]
NoContent == Content(0, 0, "missing")
Contents ==
    { NoContent,
      Content(0, 2, ""),
      Content(1, 2, "b"),
      Content(MaxContentLen, 0, "m"),
      Content(MaxContentLen, 1, "m"),
      Content(MaxContentLen + 1, 0, "x") }

\* content.length
Length(c) == c.body + c.pad
\* content.trim()
Trim(c) == [c EXCEPT !.pad = 0]

Emojis == {"e1", "e2"}
NoEmoji == ""

\* An inbound event or request as its handler reads it
Req(op, via, s, by, m, c, e) ==
    [op |-> op, via |-> via, s |-> s, by |-> by, msg |-> m, content |-> c, emoji |-> e, to |-> None,
     replyTo |-> NoMsgId]
NoReq == Req("none", "none", NoSocket, None, NoMsgId, NoContent, NoEmoji)

(***************************************************************************)
(* Events and responses.  An emit to a room is one record per recipient;   *)
(* a REST response is a record addressed to HttpRcpt carrying its status.  *)
(*   about : the message the event is about (NoMsgId when none)            *)
(*   by    : the user the emitting handler acts for                        *)
(*   why   : the error or status text                                      *)
(***************************************************************************)
Evt(ev, rcpt, about, by, why) ==
    [ev |-> ev, rcpt |-> rcpt, about |-> about, by |-> by, why |-> why, status |-> 0]

General == {s \in Sockets : "general" \in rooms[s]}

\* io.to('general').emit(ev, ...)
ToRoom(ev, about, by) == {Evt(ev, r, about, by, None) : r \in General}

\* an emit that does not leave the sender out
ToEveryone(s, ev, about, by) == {Evt(ev, r, about, by, None) : r \in General}

\* socket.to('general').emit(ev, ...): every member but the sender
ToOthers(s, ev, about, by) == {Evt(ev, r, about, by, None) : r \in General \ {s}}

\* res.status(code).json({error | success, message})
Http(code, about, by, why) ==
    [ev |-> "http", rcpt |-> HttpRcpt, about |-> about, by |-> by, why |-> why, status |-> code]

NewSocket == [state |-> "new", cred |-> NoCred, user |-> NoUser]

GateNextAlwaysAdmit(s, c) ==
    [state |-> "admitted", cred |-> c, user |-> FindUser(c.sub)]

\* what io.use leaves on the socket: next(err) refuses it, next() admits it
GateNext(s, c) ==
    IF GateOutcome(c).outcome = "accept"
    THEN [state |-> "admitted", cred |-> c, user |-> GateOutcome(c).user]
    ELSE [state |-> "rejected", cred |-> c, user |-> NoUser]

\* A client opens socket s presenting credential c: the io.use middleware
GateOn(s, c) ==
    /\ sock[s].state = "new"
    /\ sock' = [sock EXCEPT ![s] = GateNext(s, c)]
    /\ out' = IF GateNext(s, c).state = "rejected"
              THEN {Evt("connect_error", s, NoMsgId, None, GateOutcome(c).err)}
              ELSE {}
    /\ req' = NoReq
    /\ UNCHANGED <<users, connectedUsers, userSockets, rooms, probe, msgs, tasks, now, pages, up>>

Gate == \E s \in Sockets, c \in SessionCreds : GateOn(s, c)

\* a bind that keeps the entry a user already has
BindIfAbsent(cu, u, s) == IF cu[u] = NoSocket THEN [cu EXCEPT ![u] = s] ELSE cu

\* connectedUsers.set(userId, socket.id)
Bind(cu, u, s) == [cu EXCEPT ![u] = s]

\* a cleanup that leaves the user's entry in place
UnbindNothing(cu, u) == cu

\* connectedUsers.delete(userId)
Unbind(cu, u) == [cu EXCEPT ![u] = NoSocket]

\* userSockets.delete(socket.id)
UnbindSocket(us, s) == [us EXCEPT ![s] = None]

\* io.on('connection'): bind, join the rooms, announce
Connection(s) ==
    /\ sock[s].state = "admitted"
    /\ sock[s].user.id \in Users
    /\ sock' = [sock EXCEPT ![s].state = "connected"]
    /\ connectedUsers' = Bind(connectedUsers, sock[s].user.id, s)
    /\ userSockets' = [userSockets EXCEPT ![s] = sock[s].user.id]
    /\ rooms' = [rooms EXCEPT ![s] = {sock[s].user.id, "general"}]
    /\ out' = ToOthers(s, "user_connected", NoMsgId, sock[s].user.id)
              \cup {Evt("online_users", s, NoMsgId, sock[s].user.id, None)}
    /\ req' = NoReq
    /\ UNCHANGED <<users, probe, msgs, tasks, now, pages, up>>

\* socket.on('disconnect'): unbind by user id, announce; the transport has
\* already taken the socket out of its rooms
Disconnect(s) ==
    /\ sock[s].state = "connected"
    /\ sock' = [sock EXCEPT ![s].state = "closed"]
    /\ connectedUsers' = Unbind(connectedUsers, sock[s].user.id)
    /\ userSockets' = UnbindSocket(userSockets, s)
    /\ rooms' = [rooms EXCEPT ![s] = {}]
    /\ out' = ToOthers(s, "user_disconnected", NoMsgId, sock[s].user.id)
    /\ req' = NoReq
    /\ UNCHANGED <<users, probe, msgs, tasks, now, pages, up>>

\* POST /deactivate behind authenticateToken
RestDeactivate(c) ==
    /\ IF AuthenticateToken(c).outcome = "accept"
       THEN /\ users' = [users EXCEPT ![AuthenticateToken(c).user.id].isActive = FALSE]
            /\ out' = {Http(200, NoMsgId, AuthenticateToken(c).user.id, "Account deactivated successfully")}
       ELSE /\ users' = users
            /\ out' = {Http(401, NoMsgId, None, AuthenticateToken(c).err)}
    /\ req' = NoReq
    /\ UNCHANGED <<sock, connectedUsers, userSockets, rooms, probe, msgs, tasks, now, pages, up>>

Deactivate == \E c \in SessionCreds : RestDeactivate(c)

\* One credential handed to both validators over the same user collection
Present(c) ==
    /\ probe' = [cred |-> c, subject |-> FindUser(c.sub),
                 gate |-> GateOutcome(c), rest |-> AuthenticateToken(c)]
    /\ out' = {}
    /\ req' = NoReq
    /\ UNCHANGED <<users, sock, connectedUsers, userSockets, rooms, msgs, tasks, now, pages, up>>

PresentAny == \E c \in Creds : Present(c)

NoProbe == [cred |-> NoCred, subject |-> NoUser,
            gate |-> Verdict("none", None, NoUser), rest |-> Verdict("none", None, NoUser)]

MaxMsgs == 3
MsgIds == 1..MaxMsgs
NoDate == 0
MaxTime == 2
MaxTasks == 2
MaxVersion == 2

\* A Message document (messageSchema); NoMsg stands for "no such document"
NoMsg ==
    [exists |-> FALSE, user |-> None, content |-> NoContent, messageType |-> None, replyTo |-> NoMsgId,
     isEdited |-> FALSE, editedAt |-> NoDate, isDeleted |-> FALSE, deletedAt |-> NoDate,
     reactions |-> <<>>, mentions |-> <<>>, createdAt |-> NoDate, v |-> 0]

NewMessage(u, c, at) ==
    [exists |-> TRUE, user |-> u, content |-> c, messageType |-> "text", replyTo |-> NoMsgId,
     isEdited |-> FALSE, editedAt |-> NoDate, isDeleted |-> FALSE, deletedAt |-> NoDate,
     reactions |-> <<>>, mentions |-> <<>>, createdAt |-> at, v |-> 0]

\* the texts that hold @-tokens, and the matches /@(\w+)/g finds in a text
Bob == "bob"
Amy == "amy"
Hex24 == "5f1d7f0e9c3b2a1d4e6f7a8b"
MentionTokens(c) ==
    IF c.text = "@bob" THEN <<Bob>>
    ELSE IF c.text = "@bob @amy" THEN <<Bob, Amy>>
    ELSE IF c.text = "@5f1d7f0e9c3b2a1d4e6f7a8b" THEN <<Hex24>>
    ELSE <<>>

\* a string that casts to an ObjectId: 24 hexadecimal digits
IsObjectIdString(token) == token = Hex24

\* messageSchema.pre('save') for a document whose content is modified:
\* this.mentions = mentions, mentions being an array of ObjectId.  The
\* tokens that cast are kept; when one does not cast, the assignment is
\* refused, and either the save is rejected or the document is stored with
\* the mentions it had.
PreSave(c, prior) ==
    IF \A i \in DOMAIN MentionTokens(c) : IsObjectIdString(MentionTokens(c)[i])
    THEN {[ok |-> TRUE, mentions |-> MentionTokens(c)]}
    ELSE {[ok |-> FALSE, mentions |-> prior], [ok |-> TRUE, mentions |-> prior]}

\* a message identifier that is no ObjectId: Message.findById rejects with a
\* CastError instead of resolving to null
BadMsgId == -1
CastError(m) == m = BadMsgId

\* Message.findById
FindById(m) == IF m \in MsgIds THEN msgs[m] ELSE NoMsg

\* the catch block of each handler: 'Failed to ...'
FailureOf(op) ==
    CASE op = "send" -> "Failed to send message"
      [] op = "edit" -> "Failed to edit message"
      [] op = "delete" -> "Failed to delete message"
      [] op = "add" -> "Failed to add reaction"
      [] op = "remove" -> "Failed to remove reaction"
      [] OTHER -> "Failed to send private message"

\* a content check that looks at the length only
ContentErrorNoEmptyCheck(c) ==
    IF Length(c) > MaxContentLen THEN "Message content cannot exceed 1000 characters"
    ELSE None

\* The content checks of send_message / edit_message / POST / PUT:
\* !content || content.trim().length === 0, then content.length > 1000
ContentError(c) ==
    IF c.body = 0 THEN "Message content is required"
    ELSE IF Length(c) > MaxContentLen THEN "Message content cannot exceed 1000 characters"
    ELSE None

CanMutateModerator(doc, user) == doc.user = user.id \/ user.role \in {"admin", "moderator"}

\* message.user.toString() !== user._id.toString() && user.role !== 'admin'
\* is the refusal; its negation lets the caller edit or delete
CanMutate(doc, user) == doc.user = user.id \/ user.role = "admin"

\* A handler suspended on its save: what it holds in memory meanwhile
TaskIds == 1..MaxTasks
FreeTask == CHOOSE i \in TaskIds : (\A t \in tasks : t.id # i) /\ (\A j \in TaskIds : (\A t \in tasks : t.id # j) => i <= j)
Task(op, via, s, user, m, c, e, rs, v, at) ==
    [id |-> FreeTask, op |-> op, via |-> via, s |-> s, by |-> user.id, msg |-> m, content |-> c,
     emoji |-> e, reactions |-> rs, v |-> v, at |-> at, replyTo |-> NoMsgId, was |-> NoContent]
\* fewer than n handlers are suspended
Idle(n) == Cardinality(tasks) < n /\ Cardinality(tasks) < MaxTasks

\* a failure report that goes to the whole room
FailToRoom(via, s, by, m, why, code) ==
    IF via = "socket" THEN ToRoom("error", m, by) ELSE {Http(code, m, by, why)}

\* Reporting a failure to the caller only: socket.emit('error', ...) or
\* res.status(code).json(...)
Fail(via, s, by, m, why, code) ==
    IF via = "socket" THEN {Evt("error", s, m, by, why)} ELSE {Http(code, m, by, why)}

\* What a successful handler sends: the room broadcast and the caller's
\* confirmation (socket), or the response (REST, which broadcasts nothing)
Done(t, ev, code) ==
    IF t.via = "socket"
    THEN ToRoom(ev, t.msg, t.by)
    ELSE {Http(code, t.msg, t.by, ev)}

Existing == {m \in MsgIds : msgs[m].exists}
Sending == {t \in tasks : t.op = "send"}
\* fewer than n messages are stored or on their way
Stock(n) == Cardinality(Existing) + Cardinality(Sending) < n
\* the identifier the store gives the next document
FreshId == CHOOSE m \in MsgIds \ Existing : \A k \in MsgIds \ Existing : m <= k

(***************************************************************************)
(* Send: send_message and POST /messages                                   *)
(***************************************************************************)
\* replyTo is copied into the document when it is truthy; the schema types
\* it as an ObjectId, so save() rejects a value that is no ObjectId and
\* looks nothing up
SendReplyStep(via, s, user, c, replyTo) ==
    /\ Cardinality(Existing) + Cardinality(Sending) < MaxMsgs
    /\ IF ContentError(c) # None
       THEN /\ out' = Fail(via, s, user.id, NoMsgId, ContentError(c), 400)
            /\ tasks' = tasks
       ELSE IF CastError(replyTo)
       THEN /\ out' = Fail(via, s, user.id, NoMsgId, FailureOf("send"), 500)
            /\ tasks' = tasks
       ELSE /\ out' = {}
            /\ tasks' = tasks \cup {[Task("send", via, s, user, NoMsgId, Trim(c), NoEmoji, <<>>, 0, now)
                                        EXCEPT !.replyTo = replyTo]}
    /\ req' = [Req("send", via, s, user.id, NoMsgId, c, NoEmoji) EXCEPT !.replyTo = replyTo]
    /\ UNCHANGED <<users, sock, connectedUsers, userSockets, rooms, probe, msgs, now, pages, up>>

\* a send that names no reply target
SendStep(via, s, user, c) == SendReplyStep(via, s, user, c, NoMsgId)

SocketSendMessage(s, c) ==
    /\ sock[s].state = "connected"
    /\ SendStep("socket", s, sock[s].user, c)

SocketSendReply(s, c, replyTo) ==
    /\ sock[s].state = "connected"
    /\ SendReplyStep("socket", s, sock[s].user, c, replyTo)

\* a REST handler behind authenticateToken: 401, or the handler as req.user
Unauthorized(cred) ==
    /\ AuthenticateToken(cred).outcome # "accept"
    /\ out' = {Http(401, NoMsgId, None, AuthenticateToken(cred).err)}
    /\ req' = NoReq
    /\ UNCHANGED <<users, sock, connectedUsers, userSockets, rooms, probe, msgs, tasks, now, pages, up>>

RestSendMessage(cred, c) ==
    \/ Unauthorized(cred)
    \/ /\ AuthenticateToken(cred).outcome = "accept"
       /\ SendStep("rest", NoSocket, AuthenticateToken(cred).user, c)

RestSendReply(cred, c, replyTo) ==
    \/ Unauthorized(cred)
    \/ /\ AuthenticateToken(cred).outcome = "accept"
       /\ SendReplyStep("rest", NoSocket, AuthenticateToken(cred).user, c, replyTo)

\* a send that is given up when its connection has gone
FinishSendUnlessGone(t) ==
    /\ t.op = "send"
    /\ msgs' = IF t.via = "socket" /\ sock[t.s].state # "connected"
               THEN msgs
               ELSE [msgs EXCEPT ![FreshId] = NewMessage(t.by, t.content, t.at)]
    /\ tasks' = tasks \ {t}
    /\ out' = IF t.via = "socket" /\ sock[t.s].state # "connected"
              THEN {}
              ELSE ToRoom("new_message", FreshId, t.by)
    /\ pages' = NoPages
    /\ req' = NoReq
    /\ UNCHANGED <<users, sock, connectedUsers, userSockets, rooms, probe, now, up>>

\* the save of a send completes: the document is stored, then hydrated and
\* announced
FinishSend(t) ==
    /\ t.op = "send"
    /\ \E saved \in PreSave(t.content, <<>>) :
         IF saved.ok
         THEN /\ msgs' = [msgs EXCEPT ![FreshId] = [NewMessage(t.by, t.content, t.at)
                                                       EXCEPT !.replyTo = t.replyTo,
                                                              !.mentions = saved.mentions]]
              /\ out' = IF t.via = "socket"
                        THEN ToRoom("new_message", FreshId, t.by)
                             \cup {Evt("message_sent", t.s, FreshId, t.by, None) : x \in {1} \cap {IF sock[t.s].state = "connected" THEN 1 ELSE 0}}
                        ELSE {Http(201, FreshId, t.by, "created")}
         ELSE /\ msgs' = msgs
              /\ out' = {e \in Fail(t.via, t.s, t.by, t.msg, FailureOf("send"), 500) :
                             e.rcpt = HttpRcpt \/ sock[e.rcpt].state = "connected"}
    /\ tasks' = tasks \ {t}
    /\ pages' = NoPages
    /\ req' = NoReq
    /\ UNCHANGED <<users, sock, connectedUsers, userSockets, rooms, probe, now, up>>

(***************************************************************************)
(* Edit: edit_message and PUT /messages/:messageId                         *)
(***************************************************************************)
\* an edit that looks the message up and authorizes before it validates
EditStepLookupFirst(via, s, user, m, c) ==
    /\ IF ~FindById(m).exists
       THEN /\ out' = Fail(via, s, user.id, m, "Message not found", 404)
            /\ tasks' = tasks
       ELSE IF ~CanMutate(FindById(m), user)
       THEN /\ out' = Fail(via, s, user.id, m, "You can only edit your own messages", 403)
            /\ tasks' = tasks
       ELSE IF ContentError(c) # None
       THEN /\ out' = Fail(via, s, user.id, m, ContentError(c), 400)
            /\ tasks' = tasks
       ELSE /\ out' = {}
            /\ tasks' = tasks \cup {[Task("edit", via, s, user, m, Trim(c), NoEmoji, <<>>, 0, now)
                                        EXCEPT !.was = FindById(m).content]}
    /\ req' = Req("edit", via, s, user.id, m, c, NoEmoji)
    /\ UNCHANGED <<users, sock, connectedUsers, userSockets, rooms, probe, msgs, now, pages, up>>

\* the edit handlers up to the save: validate the content, look the message
\* up, authorize
EditStep(via, s, user, m, c) ==
    /\ IF ContentError(c) # None
       THEN /\ out' = Fail(via, s, user.id, m, ContentError(c), 400)
            /\ tasks' = tasks
       ELSE IF CastError(m)
       THEN /\ out' = Fail(via, s, user.id, m, FailureOf("edit"), 500)
            /\ tasks' = tasks
       ELSE IF ~FindById(m).exists
       THEN /\ out' = Fail(via, s, user.id, m, "Message not found", 404)
            /\ tasks' = tasks
       ELSE IF ~CanMutate(FindById(m), user)
       THEN /\ out' = Fail(via, s, user.id, m, "You can only edit your own messages", 403)
            /\ tasks' = tasks
       ELSE /\ out' = {}
            /\ tasks' = tasks \cup {[Task("edit", via, s, user, m, Trim(c), NoEmoji, <<>>, 0, now)
                                        EXCEPT !.was = FindById(m).content]}
    /\ req' = Req("edit", via, s, user.id, m, c, NoEmoji)
    /\ UNCHANGED <<users, sock, connectedUsers, userSockets, rooms, probe, msgs, now, pages, up>>

SocketEditMessage(s, m, c) ==
    /\ sock[s].state = "connected"
    /\ EditStep("socket", s, sock[s].user, m, c)

RestEditMessage(cred, m, c) ==
    \/ Unauthorized(cred)
    \/ /\ AuthenticateToken(cred).outcome = "accept"
       /\ EditStep("rest", NoSocket, AuthenticateToken(cred).user, m, c)

\* the content an edit save leaves stored: an assignment that does not
\* change the value the handler read marks nothing modified, and save()
\* writes modified paths only
SavedContent(t) == IF t.content = t.was THEN msgs[t.msg].content ELSE t.content

\* messageSchema.methods.editMessage, saved: the assigned fields that changed
\* are written; the rest of the stored document is left as it is
FinishEdit(t) ==
    /\ t.op = "edit"
    /\ \E saved \in (IF t.content = t.was
                      THEN {[ok |-> TRUE, mentions |-> msgs[t.msg].mentions]}
                      ELSE PreSave(t.content, msgs[t.msg].mentions)) :
         IF saved.ok
         THEN /\ msgs' = [msgs EXCEPT ![t.msg].content = SavedContent(t),
                                      ![t.msg].mentions = saved.mentions,
                                      ![t.msg].isEdited = TRUE,
                                      ![t.msg].editedAt = t.at]
              /\ out' = Done(t, "message_edited", 200)
         ELSE /\ msgs' = msgs
              /\ out' = {e \in Fail(t.via, t.s, t.by, t.msg, FailureOf("edit"), 500) :
                             e.rcpt = HttpRcpt \/ sock[e.rcpt].state = "connected"}
    /\ tasks' = tasks \ {t}
    /\ pages' = NoPages
    /\ req' = NoReq
    /\ UNCHANGED <<users, sock, connectedUsers, userSockets, rooms, probe, now, up>>

(***************************************************************************)
(* Soft delete: delete_message and DELETE /messages/:messageId             *)
(***************************************************************************)
DeleteStep(via, s, user, m) ==
    /\ IF CastError(m)
       THEN /\ out' = Fail(via, s, user.id, m, FailureOf("delete"), 500)
            /\ tasks' = tasks
       ELSE IF ~FindById(m).exists
       THEN /\ out' = Fail(via, s, user.id, m, "Message not found", 404)
            /\ tasks' = tasks
       ELSE IF ~CanMutate(FindById(m), user)
       THEN /\ out' = Fail(via, s, user.id, m, "You can only delete your own messages", 403)
            /\ tasks' = tasks
       ELSE /\ out' = {}
            /\ tasks' = tasks \cup {Task("delete", via, s, user, m, NoContent, NoEmoji, <<>>, 0, now)}
    /\ req' = Req("delete", via, s, user.id, m, NoContent, NoEmoji)
    /\ UNCHANGED <<users, sock, connectedUsers, userSockets, rooms, probe, msgs, now, pages, up>>

SocketDeleteMessage(s, m) ==
    /\ sock[s].state = "connected"
    /\ DeleteStep("socket", s, sock[s].user, m)

RestDeleteMessage(cred, m) ==
    \/ Unauthorized(cred)
    \/ /\ AuthenticateToken(cred).outcome = "accept"
       /\ DeleteStep("rest", NoSocket, AuthenticateToken(cred).user, m)

\* a soft delete that erases the document
FinishHardDelete(t) ==
    /\ t.op = "delete"
    /\ msgs' = [msgs EXCEPT ![t.msg] = NoMsg]
    /\ tasks' = tasks \ {t}
    /\ out' = Done(t, "message_deleted", 200)
    /\ pages' = NoPages
    /\ req' = NoReq
    /\ UNCHANGED <<users, sock, connectedUsers, userSockets, rooms, probe, now, up>>

\* messageSchema.methods.softDelete, saved
FinishDelete(t) ==
    /\ t.op = "delete"
    /\ msgs' = [msgs EXCEPT ![t.msg].isDeleted = TRUE,
                            ![t.msg].deletedAt = t.at]
    /\ tasks' = tasks \ {t}
    /\ out' = Done(t, "message_deleted", 200)
    /\ pages' = NoPages
    /\ req' = NoReq
    /\ UNCHANGED <<users, sock, connectedUsers, userSockets, rooms, probe, now, up>>

(***************************************************************************)
(* Reactions: add_reaction / remove_reaction and the two                   *)
(* /messages/:messageId/reactions routes.                                  *)
(*                                                                         *)
(* addReaction and removeReaction work on the document the handler read    *)
(* and end in this.save().  A Mongoose save sends the changes made to the  *)
(* document since it was read:                                             *)
(*   - assigning reactions an array equal to the one read does not mark    *)
(*     the path modified, so the push that follows is sent as a $push of   *)
(*     the new entry onto the stored array;                                *)
(*   - assigning a different array sends the whole array ($set), guarded   *)
(*     by the document version __v read with it: when the stored version   *)
(*     has moved on, the save fails with a VersionError;                   *)
(*   - every array change increments __v;                                  *)
(*   - a document with no change is not written at all.                    *)
(***************************************************************************)
Reaction(u, e) == [user |-> u, emoji |-> e]

\* reactions.filter(reaction => reaction.user.toString() !== userId.toString())
Without(rs, u) == SelectSeq(rs, LAMBDA r : r.user # u)

AddReactionStep(via, s, user, m, e) ==
    /\ IF e = NoEmoji
       THEN /\ out' = Fail(via, s, user.id, m, "Emoji is required", 400)
            /\ tasks' = tasks
       ELSE IF CastError(m)
       THEN /\ out' = Fail(via, s, user.id, m, FailureOf("add"), 500)
            /\ tasks' = tasks
       ELSE IF ~FindById(m).exists
       THEN /\ out' = Fail(via, s, user.id, m, "Message not found", 404)
            /\ tasks' = tasks
       ELSE /\ out' = {}
            /\ tasks' = tasks \cup {Task("add", via, s, user, m, NoContent, e,
                                         FindById(m).reactions, FindById(m).v, now)}
    /\ req' = Req("add", via, s, user.id, m, NoContent, e)
    /\ UNCHANGED <<users, sock, connectedUsers, userSockets, rooms, probe, msgs, now, pages, up>>

SocketAddReaction(s, m, e) ==
    /\ sock[s].state = "connected"
    /\ AddReactionStep("socket", s, sock[s].user, m, e)

RestAddReaction(cred, m, e) ==
    \/ Unauthorized(cred)
    \/ /\ AuthenticateToken(cred).outcome = "accept"
       /\ AddReactionStep("rest", NoSocket, AuthenticateToken(cred).user, m, e)

RemoveReactionStep(via, s, user, m) ==
    /\ IF CastError(m)
       THEN /\ out' = Fail(via, s, user.id, m, FailureOf("remove"), 500)
            /\ tasks' = tasks
       ELSE IF ~FindById(m).exists
       THEN /\ out' = Fail(via, s, user.id, m, "Message not found", 404)
            /\ tasks' = tasks
       ELSE /\ out' = {}
            /\ tasks' = tasks \cup {Task("remove", via, s, user, m, NoContent, NoEmoji,
                                         FindById(m).reactions, FindById(m).v, now)}
    /\ req' = Req("remove", via, s, user.id, m, NoContent, NoEmoji)
    /\ UNCHANGED <<users, sock, connectedUsers, userSockets, rooms, probe, msgs, now, pages, up>>

SocketRemoveReaction(s, m) ==
    /\ sock[s].state = "connected"
    /\ RemoveReactionStep("socket", s, sock[s].user, m)

RestRemoveReaction(cred, m) ==
    \/ Unauthorized(cred)
    \/ /\ AuthenticateToken(cred).outcome = "accept"
       /\ RemoveReactionStep("rest", NoSocket, AuthenticateToken(cred).user, m)

\* a save of a replaced reactions array that does not look at the version
SaveReactionsUnguarded(t, rs, ev, failure) ==
    /\ msgs' = [msgs EXCEPT ![t.msg].reactions = rs, ![t.msg].v = @ + 1]
    /\ out' = Done(t, ev, 200)

\* the save of a reassigned reactions array: written whole if the stored
\* document still has the version the handler read, a VersionError otherwise
SaveReactions(t, rs, ev, failure) ==
    IF msgs[t.msg].v = t.v
    THEN /\ msgs' = [msgs EXCEPT ![t.msg].reactions = rs, ![t.msg].v = @ + 1]
         /\ out' = Done(t, ev, 200)
    ELSE /\ msgs' = msgs
         /\ out' = {e \in Fail(t.via, t.s, t.by, t.msg, failure, 500) :
                        e.rcpt = HttpRcpt \/ sock[e.rcpt].state = "connected"}

\* messageSchema.methods.addReaction, saved
FinishAddReaction(t) ==
    /\ t.op = "add"
    /\ IF Without(t.reactions, t.by) = t.reactions
       THEN /\ msgs' = [msgs EXCEPT ![t.msg].reactions = Append(@, Reaction(t.by, t.emoji)),
                                    ![t.msg].v = @ + 1]
            /\ out' = Done(t, "reaction_added", 200)
       ELSE SaveReactions(t, Append(Without(t.reactions, t.by), Reaction(t.by, t.emoji)),
                          "reaction_added", "Failed to add reaction")
    /\ tasks' = tasks \ {t}
    /\ pages' = NoPages
    /\ req' = NoReq
    /\ UNCHANGED <<users, sock, connectedUsers, userSockets, rooms, probe, now, up>>

\* messageSchema.methods.removeReaction, saved
FinishRemoveReaction(t) ==
    /\ t.op = "remove"
    /\ IF Without(t.reactions, t.by) = t.reactions
       THEN /\ msgs' = msgs
            /\ out' = Done(t, "reaction_removed", 200)
       ELSE SaveReactions(t, Without(t.reactions, t.by),
                          "reaction_removed", "Failed to remove reaction")
    /\ tasks' = tasks \ {t}
    /\ pages' = NoPages
    /\ req' = NoReq
    /\ UNCHANGED <<users, sock, connectedUsers, userSockets, rooms, probe, now, up>>

\* the stored version, counting the reaction saves still under way, is below n
Versions(n) ==
    \A m \in MsgIds :
        msgs[m].v + Cardinality({t \in tasks : t.msg = m /\ t.op \in {"add", "remove"}}) < n

(***************************************************************************)
(* Failures past validation, and the events that store nothing             *)
(***************************************************************************)
\* an emit on a socket that has gone is dropped
Reachable(evs) == {e \in evs : e.rcpt = HttpRcpt \/ sock[e.rcpt].state = "connected"}

\* the storage layer rejects the save of handler t: its catch block reports
\* the failure to the caller, and nothing is stored
FailSave(t) ==
    /\ tasks' = tasks \ {t}
    /\ out' = Reachable(Fail(t.via, t.s, t.by, t.msg, FailureOf(t.op), 500))
    /\ req' = NoReq
    /\ UNCHANGED <<users, sock, connectedUsers, userSockets, rooms, probe, msgs, now, pages, up>>

\* the save of send handler t stores the document, and the populate that
\* follows it is rejected by the storage layer: the catch block reports the
\* failure to the caller
FailPopulate(t) ==
    /\ t.op = "send"
    /\ \E saved \in PreSave(t.content, <<>>) :
         /\ saved.ok
         /\ msgs' = [msgs EXCEPT ![FreshId] = [NewMessage(t.by, t.content, t.at)
                                                  EXCEPT !.replyTo = t.replyTo,
                                                         !.mentions = saved.mentions]]
    /\ tasks' = tasks \ {t}
    /\ out' = Reachable(Fail(t.via, t.s, t.by, t.msg, FailureOf("send"), 500))
    /\ pages' = NoPages
    /\ req' = NoReq
    /\ UNCHANGED <<users, sock, connectedUsers, userSockets, rooms, probe, now, up>>

\* an event emitted with no payload: data is undefined
NoPayload == Content(-1, 0, "undefined")
PayloadOps == {"send", "edit", "delete", "add", "remove", "private"}

\* const {...} = data throws inside the handler's try block
SocketNoPayload(s, op) ==
    /\ sock[s].state = "connected"
    /\ out' = Fail("socket", s, sock[s].user.id, NoMsgId, FailureOf(op), 500)
    /\ req' = Req(op, "socket", s, sock[s].user.id, NoMsgId, NoPayload, NoEmoji)
    /\ UNCHANGED <<users, sock, connectedUsers, userSockets, rooms, probe, msgs, tasks, now, pages, up>>

\* an enum that admits private messages
MessageTypesWithPrivate == {"text", "image", "file", "system", "private"}

\* messageSchema.messageType: enum, checked by the validation save() runs
MessageTypes == {"text", "image", "file", "system"}

\* socket.on('private_message'): the whole handler.  The content is checked
\* for emptiness only; save() validates the document before it stores it
\* and rejects a messageType outside the enum.
PrivateMessage(s, rcpt, c) ==
    /\ sock[s].state = "connected"
    /\ IF c.body = 0
       THEN /\ out' = Fail("socket", s, sock[s].user.id, NoMsgId, "Message content is required", 400)
            /\ msgs' = msgs
            /\ pages' = pages
       ELSE IF "private" \notin MessageTypes
       THEN /\ out' = Fail("socket", s, sock[s].user.id, NoMsgId, FailureOf("private"), 500)
            /\ msgs' = msgs
            /\ pages' = pages
       ELSE /\ msgs' = [msgs EXCEPT ![FreshId] =
                            [NewMessage(sock[s].user.id, Trim(c), now) EXCEPT !.messageType = "private"]]
            /\ out' = {Evt("private_message", connectedUsers[rcpt], FreshId, sock[s].user.id, None) :
                            x \in {1} \cap {IF rcpt \in Users /\ connectedUsers[rcpt] # NoSocket THEN 1 ELSE 0}}
                       \cup {Evt("private_message_sent", s, FreshId, sock[s].user.id, None)}
            /\ pages' = NoPages
    /\ req' = [Req("private", "socket", s, sock[s].user.id, NoMsgId, c, NoEmoji) EXCEPT !.to = rcpt]
    /\ UNCHANGED <<users, sock, connectedUsers, userSockets, rooms, probe, tasks, now, up>>

\* socket.on('typing_start') / socket.on('typing_stop'): data is not read
Typing(s, op) ==
    /\ sock[s].state = "connected"
    /\ out' = ToOthers(s, IF op = "typing_start" THEN "user_typing" ELSE "user_stopped_typing",
                       NoMsgId, sock[s].user.id)
    /\ req' = Req(op, "socket", s, sock[s].user.id, NoMsgId, NoContent, NoEmoji)
    /\ UNCHANGED <<users, sock, connectedUsers, userSockets, rooms, probe, msgs, tasks, now, pages, up>>

\* socket.on('update_status'): const { status } = data stands outside any
\* try block, so with no payload the TypeError leaves the handler; no
\* uncaughtException listener is installed, and the process ends
UpdateStatus(s, payload) ==
    /\ sock[s].state = "connected"
    /\ IF payload = NoPayload
       THEN /\ out' = {}
            /\ up' = FALSE
       ELSE /\ out' = ToOthers(s, "user_status_update", NoMsgId, sock[s].user.id)
            /\ up' = up
    /\ req' = Req("update_status", "socket", s, sock[s].user.id, NoMsgId, payload, NoEmoji)
    /\ UNCHANGED <<users, sock, connectedUsers, userSockets, rooms, probe, msgs, tasks, now, pages>>

(***************************************************************************)
(* List and Search: getMessages, searchMessages, GET /messages, GET /search*)
(***************************************************************************)
DefaultPage == 1
DefaultLimit == 50
SearchCap == 20

Range(q) == {q[i] : i \in DOMAIN q}
Reverse(q) == [i \in 1..Len(q) |-> q[Len(q) + 1 - i]]
Take(q, n) == SubSeq(q, 1, IF n < Len(q) THEN n ELSE Len(q))
Drop(q, n) == SubSeq(q, n + 1, Len(q))

\* sort({createdAt: -1}) over a set of documents: newest first; the store
\* fixes no order between documents with equal createdAt, and need not
\* return them in the same order twice
SortedNewestFirst(S) ==
    {q \in [1..Cardinality(S) -> S] :
        /\ Range(q) = S
        /\ \A i, j \in 1..Cardinality(S) : i < j => msgs[q[i]].createdAt >= msgs[q[j]].createdAt}

ListQueryAll == Existing

\* find({isDeleted: false})
ListQuery == {m \in Existing : ~msgs[m].isDeleted}

\* messageSchema.statics.getMessages: the pages the query can return
GetMessages(page, limit) ==
    {Take(Drop(q, (page - 1) * limit), limit) : q \in SortedNewestFirst(ListQuery)}

\* content: {$regex: query, $options: 'i'}
Queries == {"b", "z"}
NoQuery == ""
Matches(c, query) == c.text = query

\* find({isDeleted: false, content: ..., [user: userId]})
SearchQuery(query, userId) ==
    {m \in Existing :
        /\ ~msgs[m].isDeleted
        /\ Matches(msgs[m].content, query)
        /\ (userId # None => msgs[m].user = userId)}

\* messageSchema.statics.searchMessages
SearchMessages(query, userId) ==
    {Take(q, SearchCap) : q \in SortedNewestFirst(SearchQuery(query, userId))}

\* the results on record are the latest answers to one kind of question:
\* the pages of one page size, one answer per page, or one search
Listed(page, limit, ids, hasMore) ==
    [limit |-> limit,
     list |-> {r \in pages.list : pages.limit = limit /\ r.page # page}
              \cup {[page |-> page, ids |-> ids, hasMore |-> hasMore]},
     search |-> {}]

\* an answer of GET /search carries no pagination: its hasMore is FALSE
Searched(query, userId, ids, hasMore) ==
    [limit |-> 0, list |-> {},
     search |-> {[query |-> query, user |-> userId, ids |-> ids, hasMore |-> hasMore]}]

\* pagination.hasMore: messages.length === limit
HasMore(n, limit) == n = limit

\* GET /messages: page and limit default when absent (0 here), the search
\* parameter switches to searchMessages, and the page is reversed
RestGetMessages(page, limit, search) ==
    /\ \E ids \in (IF search # NoQuery
                   THEN SearchMessages(search, None)
                   ELSE GetMessages(IF page = 0 THEN DefaultPage ELSE page,
                                    IF limit = 0 THEN DefaultLimit ELSE limit)) :
          pages' = IF search # NoQuery
                   THEN Searched(search, None, Reverse(ids),
                                 HasMore(Len(ids), IF limit = 0 THEN DefaultLimit ELSE limit))
                   ELSE Listed(IF page = 0 THEN DefaultPage ELSE page,
                               IF limit = 0 THEN DefaultLimit ELSE limit, Reverse(ids),
                               HasMore(Len(ids), IF limit = 0 THEN DefaultLimit ELSE limit))
    /\ out' = {Http(200, NoMsgId, None, "messages")}
    /\ req' = NoReq
    /\ UNCHANGED <<users, sock, connectedUsers, userSockets, rooms, probe, msgs, tasks, now, up>>

\* GET /search
RestSearch(query, userId) ==
    /\ IF query = NoQuery
       THEN /\ out' = {Http(400, NoMsgId, None, "Search query is required")}
            /\ pages' = pages
       ELSE /\ out' = {Http(200, NoMsgId, None, "messages")}
            /\ \E ids \in SearchMessages(query, userId) :
                  pages' = Searched(query, userId, ids, FALSE)
    /\ req' = NoReq
    /\ UNCHANGED <<users, sock, connectedUsers, userSockets, rooms, probe, msgs, tasks, now, up>>

\* time passes between two reads of new Date()
Tick ==
    /\ now < MaxTime
    /\ now' = now + 1
    /\ out' = {}
    /\ req' = NoReq
    /\ UNCHANGED <<users, sock, connectedUsers, userSockets, rooms, probe, msgs, tasks, pages, up>>

Init ==
    /\ users = [u \in Users |-> [exists |-> TRUE, isActive |-> TRUE, role |-> RoleOf(u)]]
    /\ sock = [s \in Sockets |-> NewSocket]
    /\ connectedUsers = [u \in Users |-> NoSocket]
    /\ userSockets = [s \in Sockets |-> None]
    /\ rooms = [s \in Sockets |-> {}]
    /\ out = {}
    /\ probe = NoProbe
    /\ msgs = [m \in MsgIds |-> NoMsg]
    /\ tasks = {}
    /\ now = 1
    /\ pages = NoPages
    /\ req = NoReq
    /\ up = TRUE

NextGate ==
    \/ Gate
    \/ \E s \in Sockets : Connection(s)
    \/ \E s \in Sockets : Disconnect(s)
    \/ Deactivate

SpecGate == Init /\ [][NextGate]_vars

\* The credentials of the chat clients: each user's own token, or none
ChatCreds == {TokenOf(u) : u \in Users} \cup {AbsentCred}

ChatSockets == 1
ChatMsgs == 1
ChatTasks == 1

NextChat ==
    \/ \E s \in 1..ChatSockets, c \in ChatCreds : GateOn(s, c)
    \/ \E s \in Sockets : Connection(s)
    \/ Tick
    \/ Idle(ChatTasks) /\ Stock(ChatMsgs) /\ \E s \in Sockets, c \in Contents : SocketSendMessage(s, c)
    \/ Idle(ChatTasks) /\ Stock(ChatMsgs) /\ \E cred \in ChatCreds, c \in Contents : RestSendMessage(cred, c)
    \/ Idle(ChatTasks) /\ \E s \in Sockets, m \in 1..ChatMsgs, c \in Contents : SocketEditMessage(s, m, c)
    \/ Idle(ChatTasks) /\ \E cred \in ChatCreds, m \in 1..ChatMsgs, c \in Contents : RestEditMessage(cred, m, c)
    \/ Idle(ChatTasks) /\ \E s \in Sockets, m \in 1..ChatMsgs : SocketDeleteMessage(s, m)
    \/ Idle(ChatTasks) /\ \E cred \in ChatCreds, m \in 1..ChatMsgs : RestDeleteMessage(cred, m)
    \/ \E t \in tasks : FinishSend(t)
    \/ \E t \in tasks : FinishEdit(t)
    \/ \E t \in tasks : FinishDelete(t)

SpecChat == Init /\ [][NextChat]_vars

\* Deactivation under open connections
NextSession ==
    \/ \E s \in Sockets, c \in ChatCreds : GateOn(s, c)
    \/ \E s \in Sockets : Connection(s)
    \/ \E c \in ChatCreds : RestDeactivate(c)
    \/ Idle(ChatTasks) /\ Stock(ChatMsgs) /\ \E s \in Sockets, c \in Contents : SocketSendMessage(s, c)
    \/ Idle(ChatTasks) /\ Stock(ChatMsgs) /\ \E cred \in ChatCreds, c \in Contents : RestSendMessage(cred, c)
    \/ Idle(ChatTasks) /\ \E s \in Sockets, m \in 1..ChatMsgs : SocketDeleteMessage(s, m)
    \/ \E t \in tasks : FinishSend(t)
    \/ \E t \in tasks : FinishDelete(t)

SpecSession == Init /\ [][NextSession]_vars

\* Reactions, with two handlers under way at a time
ReactTasks == 2
ReactMsgs == 1
ReactContents == {Content(1, 2, "b")}

NextReact ==
    \/ \E s \in 1..ChatSockets, c \in ChatCreds : GateOn(s, c)
    \/ \E s \in Sockets : Connection(s)
    \/ Idle(ReactTasks) /\ Stock(ReactMsgs) /\ \E cred \in ChatCreds, c \in ReactContents : RestSendMessage(cred, c)
    \/ Idle(ReactTasks) /\ Versions(MaxVersion)
          /\ \E s \in Sockets, m \in 1..ReactMsgs, e \in Emojis \cup {NoEmoji} : SocketAddReaction(s, m, e)
    \/ Idle(ReactTasks) /\ Versions(MaxVersion)
          /\ \E cred \in ChatCreds, m \in 1..ReactMsgs, e \in Emojis \cup {NoEmoji} : RestAddReaction(cred, m, e)
    \/ Idle(ReactTasks) /\ Versions(MaxVersion)
          /\ \E s \in Sockets, m \in 1..ReactMsgs : SocketRemoveReaction(s, m)
    \/ Idle(ReactTasks) /\ Versions(MaxVersion)
          /\ \E cred \in ChatCreds, m \in 1..ReactMsgs : RestRemoveReaction(cred, m)
    \/ \E t \in tasks : FinishSend(t)
    \/ \E t \in tasks : FinishAddReaction(t)
    \/ \E t \in tasks : FinishRemoveReaction(t)

SpecReact == Init /\ [][NextReact]_vars

\* Listing and searching a store that one user fills and prunes
ListMsgs == 3
ListTasks == 1
MaxPage == 2
MaxLimit == 2
ListCreds == {TokenOf("u1")}
ListContents == {Content(1, 2, "b"), Content(MaxContentLen, 0, "m")}

NextList ==
    \/ Tick
    \/ Idle(ListTasks) /\ Stock(ListMsgs) /\ \E cred \in ListCreds, c \in ListContents : RestSendMessage(cred, c)
    \/ Idle(ListTasks) /\ \E cred \in ListCreds, m \in 1..ListMsgs : RestDeleteMessage(cred, m)
    \/ \E t \in tasks : FinishSend(t)
    \/ \E t \in tasks : FinishDelete(t)
    \/ \E page \in 0..MaxPage, limit \in 0..MaxLimit : RestGetMessages(page, limit, NoQuery)
    \/ \E query \in Queries : RestGetMessages(0, 0, query)
    \/ \E query \in Queries \cup {NoQuery}, u \in {None, "u1"} : RestSearch(query, u)

SpecList == Init /\ [][NextList]_vars

\* The live channel: two users on two connections, every event, and saves
\* that can fail
EventCreds == {TokenOf("u1"), TokenOf("u2")}
EventMsgs == 1
EventTasks == 1
EventVersion == 2
EventContents == {NoContent, Content(1, 2, "b")}
EventIds == (1..EventMsgs) \cup {BadMsgId}
EventEmojis == {NoEmoji, "e1"}

NextEvents ==
    \/ up /\ \E s \in Sockets, c \in EventCreds : GateOn(s, c)
    \/ up /\ \E s \in Sockets : Connection(s)
    \/ up /\ \E s \in Sockets : Disconnect(s)
    \/ up /\ Idle(EventTasks) /\ Stock(EventMsgs) /\ \E s \in Sockets, c \in EventContents : SocketSendMessage(s, c)
    \/ up /\ Idle(EventTasks) /\ \E s \in Sockets, m \in EventIds, c \in EventContents : SocketEditMessage(s, m, c)
    \/ up /\ Idle(EventTasks) /\ \E s \in Sockets, m \in EventIds : SocketDeleteMessage(s, m)
    \/ up /\ Idle(EventTasks) /\ Versions(EventVersion) /\ \E s \in Sockets, m \in EventIds, e \in EventEmojis : SocketAddReaction(s, m, e)
    \/ up /\ Idle(EventTasks) /\ Versions(EventVersion) /\ \E s \in Sockets, m \in EventIds : SocketRemoveReaction(s, m)
    \/ up /\ \E s \in Sockets, op \in PayloadOps : SocketNoPayload(s, op)
    \/ up /\ Stock(EventMsgs) /\ \E s \in Sockets, rcpt \in Users, c \in EventContents : PrivateMessage(s, rcpt, c)
    \/ up /\ \E s \in Sockets, op \in {"typing_start", "typing_stop"} : Typing(s, op)
    \/ up /\ \E s \in Sockets, payload \in {NoPayload, Content(1, 0, "away")} : UpdateStatus(s, payload)
    \/ up /\ \E t \in tasks : FinishSend(t)
    \/ up /\ \E t \in tasks : FinishEdit(t)
    \/ up /\ \E t \in tasks : FinishDelete(t)
    \/ up /\ \E t \in tasks : FinishAddReaction(t)
    \/ up /\ \E t \in tasks : FinishRemoveReaction(t)
    \/ up /\ \E t \in tasks : FailSave(t)

SpecEvents == Init /\ [][NextEvents]_vars

\* Replies: one user sends messages that name a reply target and deletes
\* messages, on the socket and over REST
ReplyMsgs == 2
ReplyTasks == 1
ReplyCreds == {TokenOf("u1"), AbsentCred}
ReplyContents == {NoContent, Content(1, 0, "b")}
\* no target, a target that is no ObjectId, and ObjectIds of which the last
\* never comes to name a message
ReplyTargets == {NoMsgId, BadMsgId} \cup (1..(ReplyMsgs + 1))

NextReply ==
    \/ GateOn(1, TokenOf("u1"))
    \/ Connection(1)
    \/ Idle(ReplyTasks) /\ Stock(ReplyMsgs) /\ \E c \in ReplyContents, r \in ReplyTargets : SocketSendReply(1, c, r)
    \/ Idle(ReplyTasks) /\ Stock(ReplyMsgs) /\ \E cred \in ReplyCreds, c \in ReplyContents, r \in ReplyTargets : RestSendReply(cred, c, r)
    \/ Idle(ReplyTasks) /\ \E cred \in ReplyCreds, m \in 1..ReplyMsgs : RestDeleteMessage(cred, m)
    \/ \E t \in tasks : FinishSend(t)
    \/ \E t \in tasks : FinishDelete(t)
    \/ \E t \in tasks : FailSave(t)

SpecReply == Init /\ [][NextReply]_vars

\* Interleaved edits of one message by its owner and an admin
EditMsgs == 1
EditTasks == 2
EditCreds == {TokenOf("u1"), TokenOf("u3"), AbsentCred}
EditContents == {Content(1, 0, "b"), Content(1, 2, "m")}

NextEdit ==
    \/ Tick
    \/ Idle(1) /\ Stock(EditMsgs) /\ \E c \in EditContents : RestSendMessage(TokenOf("u1"), c)
    \/ Idle(EditTasks) /\ \E cred \in EditCreds, m \in 1..EditMsgs, c \in EditContents : RestEditMessage(cred, m, c)
    \/ \E t \in tasks : FinishSend(t)
    \/ \E t \in tasks : FinishEdit(t)

SpecEdit == Init /\ [][NextEdit]_vars

\* Sends in flight while connections come and go; the storage layer answers
\* every save, and here it never refuses one
SendMsgs == 2
SendTasks == 1
SendCreds == {TokenOf("u1"), TokenOf("u2")}

NextSend ==
    \/ \E s \in Sockets, c \in SendCreds : GateOn(s, c)
    \/ \E s \in Sockets : Connection(s)
    \/ \E s \in Sockets : Disconnect(s)
    \/ Idle(SendTasks) /\ Stock(SendMsgs) /\ \E s \in Sockets : SocketSendMessage(s, Content(1, 2, "b"))
    \/ \E t \in tasks : FinishSend(t)

SpecSend == Init /\ [][NextSend]_vars /\ WF_vars(\E t \in tasks : FinishSend(t))

\* A message's life: its owner edits it, reacts to it and deletes it, the
\* saves interleaving
LifeMsgs == 1
LifeTasks == 2
LifeVersion == 2
LifeContents == {Content(1, 0, "b"), Content(1, 0, "m")}

NextLife ==
    \/ Tick
    \/ Idle(1) /\ Stock(LifeMsgs) /\ \E c \in LifeContents : RestSendMessage(TokenOf("u1"), c)
    \/ Idle(LifeTasks) /\ \E m \in 1..LifeMsgs, c \in LifeContents : RestEditMessage(TokenOf("u1"), m, c)
    \/ Idle(LifeTasks) /\ \E m \in 1..LifeMsgs : RestDeleteMessage(TokenOf("u1"), m)
    \/ Idle(LifeTasks) /\ Versions(LifeVersion) /\ \E m \in 1..LifeMsgs : RestAddReaction(TokenOf("u1"), m, "e1")
    \/ Idle(LifeTasks) /\ Versions(LifeVersion) /\ \E m \in 1..LifeMsgs : RestRemoveReaction(TokenOf("u1"), m)
    \/ \E t \in tasks : FinishSend(t)
    \/ \E t \in tasks : FinishEdit(t)
    \/ \E t \in tasks : FinishDelete(t)
    \/ \E t \in tasks : FinishAddReaction(t)
    \/ \E t \in tasks : FinishRemoveReaction(t)

SpecLife == Init /\ [][NextLife]_vars

\* Sends and edits whose content names users
MentionMsgs == 2
MentionTasks == 1
MentionContents ==
    {Content(1, 0, "b"), Content(4, 0, "@bob"), Content(9, 0, "@bob @amy"),
     Content(25, 0, "@5f1d7f0e9c3b2a1d4e6f7a8b")}

NextMention ==
    \/ GateOn(1, TokenOf("u1"))
    \/ Connection(1)
    \/ Disconnect(1)
    \/ Idle(MentionTasks) /\ Stock(MentionMsgs) /\ \E c \in MentionContents : SocketSendMessage(1, c)
    \/ Idle(MentionTasks) /\ Stock(MentionMsgs) /\ \E c \in MentionContents : RestSendMessage(TokenOf("u1"), c)
    \/ Idle(MentionTasks) /\ \E m \in 1..MentionMsgs, c \in MentionContents : RestEditMessage(TokenOf("u1"), m, c)
    \/ \E t \in tasks : FinishSend(t)
    \/ \E t \in tasks : FinishEdit(t)

SpecMention == Init /\ [][NextMention]_vars

\* Two users react to one message, their handlers interleaving
RaceMsgs == 1
RaceTasks == 2
RaceVersion == 3
RaceCreds == {TokenOf("u1"), TokenOf("u2")}

NextRace ==
    \/ Idle(1) /\ Stock(RaceMsgs) /\ RestSendMessage(TokenOf("u1"), Content(1, 0, "b"))
    \/ Idle(RaceTasks) /\ Versions(RaceVersion)
          /\ \E cred \in RaceCreds, m \in 1..RaceMsgs, e \in Emojis : RestAddReaction(cred, m, e)
    \/ Idle(RaceTasks) /\ Versions(RaceVersion)
          /\ \E cred \in RaceCreds, m \in 1..RaceMsgs : RestRemoveReaction(cred, m)
    \/ \E t \in tasks : FinishSend(t)
    \/ \E t \in tasks : FinishAddReaction(t)
    \/ \E t \in tasks : FinishRemoveReaction(t)

SpecRace == Init /\ [][NextRace]_vars

\* Sends over a storage layer that may reject any of the queries of a handler
FaultMsgs == 2
FaultTasks == 1
FaultContents == {NoContent, Content(1, 2, "b"), Content(MaxContentLen, 0, "m")}

NextFault ==
    \/ Tick
    \/ GateOn(1, TokenOf("u1"))
    \/ Connection(1)
    \/ Disconnect(1)
    \/ Idle(FaultTasks) /\ Stock(FaultMsgs) /\ \E c \in FaultContents : SocketSendMessage(1, c)
    \/ Idle(FaultTasks) /\ Stock(FaultMsgs)
          /\ \E cred \in {TokenOf("u1"), AbsentCred}, c \in FaultContents : RestSendMessage(cred, c)
    \/ \E t \in tasks : FinishSend(t)
    \/ \E t \in tasks : t.op = "send" /\ FailSave(t)
    \/ \E t \in tasks : FailPopulate(t)

SpecFault == Init /\ [][NextFault]_vars

\* Private messages between two connected users, next to room messages and
\* the queries that list and search the store
PrivateMsgs == 2
PrivateTasks == 1
PrivateCreds == {TokenOf("u1"), TokenOf("u2")}
PrivateContents == {NoContent, Content(1, 2, "b")}

NextPrivate ==
    \/ \E s \in Sockets, c \in PrivateCreds : GateOn(s, c)
    \/ \E s \in Sockets : Connection(s)
    \/ Idle(PrivateTasks) /\ Stock(PrivateMsgs) /\ \E s \in Sockets : SocketSendMessage(s, Content(1, 2, "b"))
    \/ \E t \in tasks : FinishSend(t)
    \/ Idle(PrivateTasks) /\ Stock(PrivateMsgs)
          /\ \E s \in Sockets, rcpt \in {"u1", "u2"}, c \in PrivateContents : PrivateMessage(s, rcpt, c)
    \/ \E limit \in 0..1 : RestGetMessages(0, limit, NoQuery)
    \/ RestGetMessages(0, 0, "b")
    \/ \E userId \in {None, "u1"} : RestSearch("b", userId)

SpecPrivate == Init /\ [][NextPrivate]_vars

NextAuth ==
    \/ PresentAny
    \/ Deactivate

SpecAuth == Init /\ [][NextAuth]_vars

(***************************************************************************)
(* Connection Gate and REST authentication                                 *)
(***************************************************************************)

\* A handshake step of socket s: the io.use middleware has just run on it
Handshake(s) == sock[s].state = "new" /\ sock'[s].state # "new"

\* The credential is one the gate is to refuse: no token, a malformed,
\* expired or badly signed token, or a token whose user is missing or
\* inactive when the middleware looks it up
Refusable(c) ==
    \/ c.shape # "jwt"
    \/ ~c.sig
    \/ c.expired
    \/ ~FindUser(c.sub).exists
    \/ ~FindUser(c.sub).isActive

Announces(evs) == \E e \in evs : e.ev \in {"user_connected", "online_users"}

\* C3: a handshake whose credential is to be refused ends refused, with
\* connectedUsers, userSockets and the rooms as they were and no
\* user_connected or online_users emitted; a refused socket never enters the
\* connection handler afterwards (it stays refused, bound to nothing).
C3_RefusedBeforeConnection ==
    [][\A s \in Sockets :
          /\ (Handshake(s) /\ Refusable(sock'[s].cred)) =>
                /\ sock'[s].state = "rejected"
                /\ connectedUsers' = connectedUsers
                /\ userSockets' = userSockets
                /\ rooms' = rooms
                /\ ~Announces(out')
          /\ sock[s].state = "rejected" =>
                /\ sock'[s] = sock[s]
                /\ rooms'[s] = {}
                /\ userSockets'[s] = None
                /\ \A u \in Users : connectedUsers'[u] # s]_vars

\* C3 witness: a token of a deactivated user was refused while another
\* socket sits in room 'general'
C3_Witness ==
    \E s \in Sockets, t \in Sockets :
        /\ sock[s].state = "rejected"
        /\ sock[s].cred.sub \in Users
        /\ sock[s].cred = TokenOf(sock[s].cred.sub)
        /\ ~users[sock[s].cred.sub].isActive
        /\ sock[t].state = "connected"
        /\ "general" \in rooms[t]

\* The three outcomes of a handshake step on socket s, read off the socket
\* and the connect_error it was sent
Required(s) ==
    /\ sock'[s].state = "rejected"
    /\ out' = {Evt("connect_error", s, NoMsgId, None, "Authentication token required")}
Failed(s) ==
    /\ sock'[s].state = "rejected"
    /\ \E e \in out' : e.ev = "connect_error" /\ e.rcpt = s
    /\ \A e \in out' : e.why # "Authentication token required"
Accepted(s) ==
    /\ sock'[s].state = "admitted"
    /\ sock'[s].user.id = sock'[s].cred.sub
    /\ sock'[s].user.id \in Users
    /\ out' = {}

\* C4 as stated: absent -> 'credential required'; malformed, expired, badly
\* signed, or user missing/inactive -> 'authentication failed'; every other
\* credential is accepted and bound to its user.
C4_Original ==
    [][\A s \in Sockets : Handshake(s) =>
          IF sock'[s].cred.shape = "absent" THEN Required(s)
          ELSE IF Refusable(sock'[s].cred) THEN Failed(s)
          ELSE Accepted(s)]_vars

\* C4 amended: a token whose issuer or audience is not the server's is also
\* answered 'authentication failed'; with that, the three outcomes are
\* exhaustive and exclusive.
C4_GateOutcomes ==
    [][\A s \in Sockets : Handshake(s) =>
          IF sock'[s].cred.shape = "absent" THEN Required(s)
          ELSE IF Refusable(sock'[s].cred) \/ ~sock'[s].cred.iss THEN Failed(s)
          ELSE Accepted(s)]_vars

\* C4 witness: a properly signed, unexpired token of an active user with a
\* foreign issuer was refused
C4_Witness ==
    \E s \in Sockets :
        /\ sock[s].state = "rejected"
        /\ sock[s].cred.shape = "jwt" /\ sock[s].cred.sig /\ ~sock[s].cred.expired
        /\ ~sock[s].cred.iss
        /\ sock[s].cred.sub \in Users /\ users[sock[s].cred.sub].isActive

\* C5 as stated: the gate accepts a credential iff authenticateToken accepts
\* it, and both resolve it to the same user.
C5_Original ==
    probe.cred # NoCred =>
        /\ (probe.gate.outcome = "accept") <=> (probe.rest.outcome = "accept")
        /\ probe.gate.user = probe.rest.user

(***************************************************************************)
(* Message lifecycle                                                       *)
(***************************************************************************)

\* The latest step answered its caller with the error `why`: 'error' on the
\* caller's socket and nowhere else, or the REST status `code`
Answered(why, code) ==
    out' = Fail(req'.via, req'.s, req'.by, req'.msg, why, code)

AuthzErrorOf(op) ==
    IF op = "edit" THEN "You can only edit your own messages"
    ELSE "You can only delete your own messages"

\* The latest step handled an edit or delete of an existing message by a
\* user who neither owns it nor is an admin
Outsider ==
    /\ req'.op \in {"edit", "delete"}
    /\ FindById(req'.msg).exists
    /\ FindById(req'.msg).user # req'.by
    /\ RoleOf(req'.by) # "admin"

\* Every write of an edit or a delete is made for the owner or an admin
WriterIsOwnerOrAdmin ==
    \A t \in tasks : (t.op \in {"edit", "delete"} /\ t \notin tasks' /\ msgs' # msgs) =>
        (msgs[t.msg].user = t.by \/ RoleOf(t.by) = "admin")

ValidationErrors == {"Message content is required", "Message content cannot exceed 1000 characters"}

\* C6: a send or edit whose content is empty after trimming or longer than
\* 1000 characters is answered with a validation error to the caller only;
\* no handler is left to save anything, no message is created or changed,
\* and nothing is broadcast.
C6_InvalidContentRejected ==
    [][(/\ req'.op \in {"send", "edit"}
        /\ (req'.content.body = 0 \/ Length(req'.content) > MaxContentLen)) =>
            /\ \E why \in ValidationErrors : Answered(why, 400)
            /\ msgs' = msgs
            /\ tasks' = tasks
            /\ \A e \in out' : e.ev \notin {"new_message", "message_edited"}]_vars

\* C6 witness: the owner's edit of a stored message with a 1001-character
\* content was refused
C6_Witness ==
    /\ req.op = "edit"
    /\ Length(req.content) > MaxContentLen
    /\ msgs[req.msg].exists /\ msgs[req.msg].user = req.by
    /\ \E e \in out : e.why = "Message content cannot exceed 1000 characters"

\* C9 as stated: once a message is soft-deleted, its deletedAt is never
\* written again.
C9_Original ==
    [][\A m \in MsgIds : msgs[m].isDeleted =>
          (msgs'[m].isDeleted /\ msgs'[m].deletedAt = msgs[m].deletedAt)]_vars

\* C2 as stated: no connection is bound to a user whose active flag is
\* false, no mutation handler goes ahead for such a user, and no write is
\* made for one.
C2_Original ==
    [][/\ \A s \in Sockets : userSockets'[s] # None => users'[userSockets'[s]].isActive
       /\ tasks' # tasks /\ req'.op # "none" => users[req'.by].isActive
       /\ \A t \in tasks : (t \notin tasks' /\ msgs' # msgs) => users[t.by].isActive]_vars

\* the entries user u has among the reactions of a document
EntriesOf(doc, u) == {i \in DOMAIN doc.reactions : doc.reactions[i].user = u}

\* C7 as stated: every message holds at most one reaction per user, and an
\* add_reaction that goes through leaves its user exactly one entry, bearing
\* the emoji just added.
C7_Original ==
    [][/\ \A m \in MsgIds, u \in Users : Cardinality(EntriesOf(msgs'[m], u)) <= 1
       /\ \A t \in tasks :
            (t.op = "add" /\ t \notin tasks' /\ msgs' # msgs) =>
                \E i \in DOMAIN msgs'[t.msg].reactions :
                    /\ EntriesOf(msgs'[t.msg], t.by) = {i}
                    /\ msgs'[t.msg].reactions[i].emoji = t.emoji]_vars

\* C8: a soft-deleted message stays soft-deleted and stored, lookup by its
\* identifier returns it, and no List answer and no Search answer given
\* while it is soft-deleted holds it.
C8_DeletedHiddenButFound ==
    [][\A m \in MsgIds :
          /\ msgs[m].isDeleted => msgs'[m].isDeleted
          /\ msgs'[m].isDeleted =>
                /\ FindById(m)' = msgs'[m]
                /\ msgs'[m].exists
                /\ \A r \in pages'.list : m \notin Range(r.ids)
                /\ \A r \in pages'.search : m \notin Range(r.ids)]_vars

\* C8 happens: a search whose query matches a soft-deleted message has been
\* answered with another message, and a List answer is reachable likewise.
C8_Witness ==
    \E m \in Existing, r \in pages.search :
        /\ msgs[m].isDeleted
        /\ Matches(msgs[m].content, r.query)
        /\ r.ids # <<>>

\* the List answers on record for the pages 1..k
FirstPages(k) == {r \in pages.list : r.page <= k}

\* C10 as stated: with no write between the calls, the answers for pages p
\* and p+1 of one page size share no message, and the answers for pages
\* 1..k hold, without a duplicate, exactly as many non-deleted messages as
\* the first k*limit places have, none of them older than one left out.
C10_Original ==
    /\ \A r1, r2 \in pages.list :
          r2.page = r1.page + 1 => Range(r1.ids) \cap Range(r2.ids) = {}
    /\ \A k \in 1..MaxPage :
          (\A p \in 1..k : \E r \in pages.list : r.page = p) =>
              LET got == UNION {Range(r.ids) : r \in FirstPages(k)}
                  places == IF k * pages.limit < Cardinality(ListQuery)
                            THEN k * pages.limit ELSE Cardinality(ListQuery)
              IN  /\ Cardinality(got) = places
                  /\ \A r \in FirstPages(k) : Cardinality(Range(r.ids)) = Len(r.ids)
                  /\ \A m \in got, x \in ListQuery \ got :
                        msgs[m].createdAt >= msgs[x].createdAt

(***************************************************************************)
(* Session Registry                                                        *)
(***************************************************************************)

\* C11: the connection handler leaves lookup(userId) at the connection just
\* bound, whatever entry the user had before, and once the disconnect
\* cleanup has run, running it again for the same connection changes
\* neither connectedUsers nor userSockets.
C11_BindOverwritesUnbindIdempotent ==
    [][\A s \in Sockets :
          /\ (sock[s].state = "admitted" /\ sock'[s].state = "connected") =>
                /\ connectedUsers'[sock[s].user.id] = s
                /\ userSockets'[s] = sock[s].user.id
          /\ (sock[s].state = "connected" /\ sock'[s].state = "closed") =>
                /\ Unbind(connectedUsers', sock[s].user.id) = connectedUsers'
                /\ UnbindSocket(userSockets', s) = userSockets']_vars

\* C11 happens: a user bound to one connection has been bound to a second
\* one, and a cleanup has run for a user who held two connections
C11_Witness ==
    \E s1, s2 \in Sockets :
        /\ s1 # s2
        /\ sock[s1].state \in {"connected", "closed"}
        /\ sock[s2].state = "connected"
        /\ sock[s1].user.id = sock[s2].user.id
        /\ userSockets[s2] = sock[s2].user.id

(***************************************************************************)
(* Failures and fan-out on the live channel                                *)
(***************************************************************************)
Lifecycle == {"new_message", "message_edited", "message_deleted", "reaction_added", "reaction_removed"}

\* the latest step handled a live-channel event and stopped short of a save
StoppedShort ==
    /\ req'.via = "socket"
    /\ req'.op \in PayloadOps
    /\ tasks' = tasks

\* C12: a live-channel operation that fails, before its save or in it, emits
\* one 'error' event, to the originating connection and to no one else, and
\* no lifecycle event goes to the room in the same step.
C12_FailuresStayWithCaller ==
    [][/\ StoppedShort =>
            \E e \in out' : out' = {e} /\ e.ev = "error" /\ e.rcpt = req'.s
       /\ \A t \in tasks \ tasks' :
            (t.via = "socket" /\ \E e \in out' : e.ev = "error") =>
                \A e \in out' : e.ev = "error" /\ e.rcpt = t.s
       /\ \A e \in out' : e.ev = "error" =>
            \A e2 \in out' : e2.ev \notin Lifecycle]_vars

\* C12 happens: an edit by a user who does not own the message was refused
\* while another connection was in the room
C12_Witness ==
    /\ req.op = "edit"
    /\ \E e \in out : e.ev = "error" /\ e.why = "You can only edit your own messages"
    /\ Cardinality(General) = 2

\* the room event a handler announces its success with
EventOf(op) ==
    CASE op = "send" -> "new_message"
      [] op = "edit" -> "message_edited"
      [] op = "delete" -> "message_deleted"
      [] op = "add" -> "reaction_added"
      [] op = "remove" -> "reaction_removed"
      [] op = "typing_start" -> "user_typing"
      [] op = "typing_stop" -> "user_stopped_typing"
      [] op = "update_status" -> "user_status_update"
      [] OTHER -> None

\* the connections event ev went to in the latest step
Addressees(ev) == {e.rcpt : e \in {x \in out' : x.ev = ev}}

\* C13: a live-channel lifecycle operation that stores or announces anything
\* announces it to every member of room 'general', the originating
\* connection and the user's other connections included; presence, typing
\* and status events go to every member but the originating connection.
C13_FanOut ==
    [][/\ \A t \in tasks \ tasks' :
            (t.via = "socket" /\ (msgs' # msgs \/ \E e \in out' : e.ev \in Lifecycle)) =>
                Addressees(EventOf(t.op)) = General
       /\ (req'.op \in {"typing_start", "typing_stop", "update_status"} /\ up') =>
            /\ Addressees(EventOf(req'.op)) = General \ {req'.s}
            /\ \A e \in out' : e.ev = EventOf(req'.op)
       /\ \A s \in Sockets :
            /\ (sock[s].state = "admitted" /\ sock'[s].state = "connected") =>
                  Addressees("user_connected") = {r \in Sockets : "general" \in rooms'[r]} \ {s}
            /\ (sock[s].state = "connected" /\ sock'[s].state = "closed") =>
                  Addressees("user_disconnected") = General \ {s}]_vars

\* C13 happens: a user with two connections sent a message from one of them
\* and new_message went to both
C13_Witness ==
    \E s1, s2 \in General :
        /\ s1 # s2
        /\ sock[s1].user.id = sock[s2].user.id
        /\ \E e1, e2 \in out :
              /\ e1.ev = "new_message" /\ e1.rcpt = s1 /\ e1.by = sock[s1].user.id
              /\ e2.ev = "new_message" /\ e2.rcpt = s2

\* C14 as stated: a private_message with non-empty content for a recipient
\* who has a registry entry stores a message of kind 'private', delivers
\* private_message to the recipient's registered connection and to no other,
\* and confirms to the sender.
C14_Original ==
    [][(/\ req'.op = "private"
        /\ req'.content.body > 0
        /\ req'.to \in Users
        /\ connectedUsers[req'.to] # NoSocket) =>
            /\ \E m \in MsgIds :
                  ~msgs[m].exists /\ msgs'[m].exists /\ msgs'[m].messageType = "private"
            /\ Addressees("private_message") = {connectedUsers[req'.to]}
            /\ \E e \in out' : e.ev = "private_message_sent" /\ e.rcpt = req'.s]_vars

(***************************************************************************)
(* Reply targets                                                           *)
(***************************************************************************)

\* C15 as stated: a send whose reply target names no stored message is
\* rejected and nothing of it is stored; a send with valid content whose
\* reply target names a stored message, soft-deleted or not, goes ahead.
C15_Original ==
    [][/\ (req'.op = "send" /\ req'.replyTo # NoMsgId /\ ~FindById(req'.replyTo).exists) =>
            /\ tasks' = tasks
            /\ msgs' = msgs
            /\ \E e \in out' : e.ev = "error" \/ e.status >= 400
       /\ (req'.op = "send" /\ FindById(req'.replyTo).exists /\ ContentError(req'.content) = None) =>
            \E t \in tasks' \ tasks : t.op = "send" /\ t.replyTo = req'.replyTo
       /\ \A k \in MsgIds :
            (~msgs[k].exists /\ msgs'[k].exists /\ msgs'[k].replyTo # NoMsgId) =>
                FindById(msgs'[k].replyTo).exists]_vars

(***************************************************************************)
(* Unknown message identifiers                                             *)
(***************************************************************************)

\* C16 as stated: an edit, delete, add-reaction or remove-reaction whose
\* message identifier names no stored message, be it an absent ObjectId or
\* no ObjectId at all, is answered 'not found', stores nothing and announces
\* nothing.
C16_Original ==
    [][(/\ req'.op \in {"edit", "delete", "add", "remove"}
        /\ req'.content # NoPayload
        /\ ~FindById(req'.msg).exists) =>
            /\ Answered("Message not found", 404)
            /\ msgs' = msgs
            /\ tasks' = tasks]_vars

(***************************************************************************)
(* The handler boundary                                                    *)
(***************************************************************************)

\* C17 as stated: whatever event arrives, the process keeps running, and an
\* event that arrives without its payload is answered with an 'error' emit
\* to its connection.
C17_Original ==
    [][/\ up'
       /\ req'.content = NoPayload =>
            \E e \in out' : e.ev = "error" /\ e.rcpt = req'.s]_vars

(***************************************************************************)
(* Interleaved edits                                                       *)
(***************************************************************************)

\* C18 as stated: every edit that reaches its save completes without error,
\* and leaves stored the content, the edited flag and the edited timestamp
\* that this edit assigned, also when another edit of the same message was
\* saved after this one read the message.
C18_Original ==
    [][\A t \in tasks \ tasks' :
          t.op = "edit" =>
              /\ \A e \in out' : e.ev # "error" /\ e.status < 400
              /\ msgs'[t.msg].content = t.content
              /\ msgs'[t.msg].isEdited
              /\ msgs'[t.msg].editedAt = t.at]_vars

(***************************************************************************)
(* Sends in flight                                                         *)
(***************************************************************************)

\* handler i is a send_message whose connection has closed under it
Orphaned(i) ==
    \E t \in tasks : t.id = i /\ t.op = "send" /\ t.via = "socket" /\ sock[t.s].state = "closed"

\* C19: a send_message whose connection closes while its save is under way
\* is not given up: its save completes, and when it does the message is
\* stored and new_message goes to every remaining member of room 'general'.
C19_SendSurvivesDisconnect ==
    /\ [][\A t \in tasks \ tasks' :
            (t.op = "send" /\ t.via = "socket" /\ sock[t.s].state = "closed") =>
                /\ \E k \in MsgIds :
                      /\ ~msgs[k].exists /\ msgs'[k].exists
                      /\ msgs'[k].user = t.by /\ msgs'[k].content = t.content
                      /\ \A r \in General : \E e \in out' :
                            e.ev = "new_message" /\ e.rcpt = r /\ e.about = k
                /\ Addressees("new_message") = General]_vars
    /\ \A i \in TaskIds : Orphaned(i) ~> (\A t \in tasks : t.id # i)

\* C19 happens: new_message of a user whose only connection has closed
\* reached a connection that is still in the room
C19_Witness ==
    \E e \in out :
        /\ e.ev = "new_message"
        /\ sock[e.rcpt].state = "connected"
        /\ \E s \in Sockets : sock[s].state = "closed" /\ sock[s].user.id = e.by
        /\ \A s \in Sockets : sock[s].user.id = e.by => sock[s].state = "closed"

(***************************************************************************)
(* Trimming and the length limit                                           *)
(***************************************************************************)

\* the latest step handled a send, or an edit of a stored message by a user
\* allowed to edit it
Admissible ==
    \/ req'.op = "send"
    \/ /\ req'.op = "edit"
       /\ FindById(req'.msg).exists
       /\ (FindById(req'.msg).user = req'.by \/ RoleOf(req'.by) = "admin")

\* C20 as stated: a send or edit whose content is 1 to 1000 characters long
\* once trimmed goes ahead, whatever whitespace surrounds it, and what its
\* save stores is the trimmed content.
C20_Original ==
    [][/\ (Admissible /\ req'.content.body \in 1..MaxContentLen) =>
            \E t \in tasks' \ tasks : t.op = req'.op /\ t.content = Trim(req'.content)
       /\ \A t \in tasks \ tasks' :
            t.op = "send" =>
                \E k \in MsgIds : ~msgs[k].exists /\ msgs'[k].content = t.content /\ t.content.pad = 0]_vars

(***************************************************************************)
(* The order of the checks of an edit                                      *)
(***************************************************************************)

\* the content of the edit the latest step handled is empty once trimmed or
\* longer than the limit
InvalidEdit ==
    /\ req'.op = "edit"
    /\ (req'.content.body = 0 \/ Length(req'.content) > MaxContentLen)

C22_StoredForGood ==
    [][\A m \in MsgIds :
          msgs[m].exists =>
            /\ msgs'[m].exists
            /\ msgs[m].isDeleted => msgs'[m].isDeleted
            /\ msgs'[m].user = msgs[m].user
            /\ msgs'[m].createdAt = msgs[m].createdAt]_vars

\* C22 happens: an edit that began before the delete of its message began
\* has saved, the message is deleted, edited, reacted to and still stored
C22_Witness ==
    \E m \in Existing :
        /\ msgs[m].isDeleted
        /\ msgs[m].isEdited
        /\ msgs[m].editedAt < msgs[m].deletedAt
        /\ msgs[m].reactions # <<>>
        /\ tasks = {}

(***************************************************************************)
(* Mentions                                                                *)
(***************************************************************************)

\* C23 as stated: a send whose valid content holds @-tokens succeeds; when
\* its save ends, the message is stored with the tokens of its content as
\* its mentions (none when the content has no token) and new_message goes to
\* the room.
C23_Original ==
    [][\A t \in tasks :
          (t.op = "send" /\ t \notin tasks') =>
            /\ FreshId \in MsgIds
            /\ msgs'[FreshId].exists
            /\ msgs'[FreshId].mentions = MentionTokens(t.content)
            /\ t.via = "socket" => \E e \in out' : e.ev = "new_message" /\ e.about = FreshId]_vars

(***************************************************************************)
(* The registry and the connections it names                               *)
(***************************************************************************)

\* C24 as stated: a user with at least one connection that passed the gate
\* and is still open has an entry in the registry; the disconnect of the
\* older of two connections of a user leaves the entry of the newer one.
C24_Original ==
    \A s \in Sockets :
        sock[s].state = "connected" => connectedUsers[sock[s].user.id] # NoSocket

(***************************************************************************)
(* Reactions of different users                                            *)
(***************************************************************************)

\* the emojis user u has on document doc
EmojisOf(doc, u) == {doc.reactions[i].emoji : i \in {j \in DOMAIN doc.reactions : doc.reactions[j].user = u}}

\* the step ends a reaction handler of user u on message m
EndsReactionOf(u, m) ==
    \E t \in tasks : t \notin tasks' /\ t.by = u /\ t.msg = m /\ t.op \in {"add", "remove"}

\* C25: a reaction of user u stored on message m stays on m through every
\* step that is not the end of an add or remove of u's own; the save of
\* another user's add or remove, one that read m before u's save included,
\* does not drop it.
C25_OthersKeepMyReaction ==
    [][\A m \in MsgIds, u \in Users :
          EmojisOf(msgs[m], u) \subseteq EmojisOf(msgs'[m], u) \/ EndsReactionOf(u, m)]_vars

\* C25 happens: a user's save of a replaced reactions array, read before
\* another user's reaction was stored, has just been refused, and the other
\* user's reaction is in the list
C25_Witness ==
    \E e \in out, u \in Users :
        /\ e.why \in {"Failed to add reaction", "Failed to remove reaction"}
        /\ e.by # u
        /\ e.about \in MsgIds
        /\ EmojisOf(msgs[e.about], u) # {}

(***************************************************************************)
(* Writes to a deleted message                                             *)
(***************************************************************************)

\* C26 as stated: once a message is soft-deleted, no step changes its
\* content or its reactions, and no message_edited, reaction_added or
\* reaction_removed about it goes out.
C26_Original ==
    [][\A m \in MsgIds :
          msgs[m].isDeleted =>
            /\ msgs'[m].content = msgs[m].content
            /\ msgs'[m].reactions = msgs[m].reactions
            /\ ~\E e \in out' : /\ e.about = m
                                /\ e.ev \in {"message_edited", "reaction_added", "reaction_removed"}]_vars

(***************************************************************************)
(* A send that reports failure                                             *)
(***************************************************************************)

\* C27 as stated: a send that ends with 'Failed to send message' has stored
\* nothing, and a send that stores a message announces it: new_message to
\* the room on the live channel, 201 on the REST route.
C27_Original ==
    [][\A t \in tasks :
          (t.op = "send" /\ t \notin tasks') =>
            /\ (\E e \in out' : e.why = FailureOf("send")) => msgs' = msgs
            /\ msgs' # msgs =>
                 \E e \in out' : e.ev = "new_message" \/ (e.ev = "http" /\ e.why = "created")]_vars

(***************************************************************************)
(* Private messages and the room                                           *)
(***************************************************************************)

PrivateIds == {m \in Existing : msgs[m].messageType = "private"}

C29_Original ==
    /\ \A r \in pages.list : r.hasMore <=> (r.page * pages.limit < Cardinality(ListQuery))
    /\ \A r \in pages.search : ~r.hasMore

(***************************************************************************)
(* The two maps of the registry agree                                      *)
(***************************************************************************)

\* C30: every entry of connectedUsers names a socket that is connected and
\* that userSockets maps back to the same user; no entry names a socket
\* that has disconnected.
C30_EntriesNameLiveSockets ==
    \A u \in Users :
        connectedUsers[u] # NoSocket =>
            /\ sock[connectedUsers[u]].state = "connected"
            /\ userSockets[connectedUsers[u]] = u

\* C30 happens: one user's socket has disconnected while another user's
\* entry is in the registry
C30_Witness ==
    \E u \in Users, s \in Sockets :
        /\ connectedUsers[u] # NoSocket
        /\ sock[s].state = "closed"
        /\ sock[s].user.id # u

====
